---- MODULE Spec2Model ----
(***************************************************************************)
(* Model of the lightningd launch harness (src/src/lib.rs):                *)
(* LightningD::with_conf (work directory, argument validation, spawn,      *)
(* exit-check / readiness polling loop, recursive retry), LightningD::stop *)
(* and Drop for LightningD, together with the environment they act on:     *)
(* the file system, the spawned daemons and their control sockets.         *)
(*                                                                         *)
(* Paths are sequences of components, the empty sequence is Option::None.  *)
(* Argument tokens are sequences of characters, so that starts_with is     *)
(* computed and not assumed.  conf.view_stdout only selects the Stdio of   *)
(* the child and has no effect on the state machine: launches are          *)
(* enumerated with its default value.                                      *)
(***************************************************************************)
EXTENDS Integers, Sequences, FiniteSets, TLC

\* ---------------------------------------------------------------- bounds
MaxAttempts == 2
MaxPolls == 1
MaxStops == 2

MaxArgs == 3

MaxLines == 2

\* ------------------------------------------------------ paths and tokens
None == <<>>

IsSome(o) == o # None

OsTempDir == <<"tmp">>

TmpRoots == {<<"T">>}

StaticDirs == {<<"S">>}

EnvRoots == {<<"E">>}

Networks == {"regtest", "bitcoin"}

\* the random names tempfile may draw: as many as the directories one launch
\* can hold at the same time (one per attempt)
NamePool == <<"a", "b", "c", "d", "e", "f", "g", "h">>

\* attempts of Conf::default()
DefaultAttempts == 3

\* one name for each attempt of the longest launch
TempNames ==
    {NamePool[k] : k \in 1..((IF MaxAttempts > DefaultAttempts THEN MaxAttempts
                                                              ELSE DefaultAttempts) + 1)}

Join(path, component) == Append(path, component)

TokRegtest == <<"-", "-", "r", "e", "g", "t", "e", "s", "t">>

TokRpcUserEq == <<"-", "r", "p", "c", "u", "s", "e", "r", "=", "u">>

TokRpcPassword == <<"-", "r", "p", "c", "p", "a", "s", "s", "w", "o", "r", "d">>

TokRpcUse == <<"-", "r", "p", "c", "u", "s", "e">>

TokDashDashRpcUser == <<"-", "-", "r", "p", "c", "u", "s", "e", "r">>

Tokens == {TokRegtest, TokRpcUserEq, TokRpcPassword, TokRpcUse}

INVALID_ARGS ==
    << <<"-", "r", "p", "c", "u", "s", "e", "r">>,
       <<"-", "r", "p", "c", "p", "a", "s", "s", "w", "o", "r", "d">> >>

StartsWith(arg, x) ==
    /\ Len(arg) >= Len(x)
    /\ SubSeq(arg, 1, Len(x)) = x

IsInvalidArg(arg) ==
    \E k \in 1..Len(INVALID_ARGS) : StartsWith(arg, INVALID_ARGS[k])

\* faulty variant of validate_args: only the first deny-listed prefix is tested
validate_args_FirstPrefixOnly(args) ==
    IF \E k \in 1..Len(args) : StartsWith(args[k], INVALID_ARGS[1])
    THEN [ok |-> FALSE, args |-> <<>>]
    ELSE [ok |-> TRUE, args |-> args]

\* validate_args: Err(RpcUserAndPasswordUsed) on the first deny-listed
\* token, otherwise Ok(args)
validate_args(args) ==
    IF \E k \in 1..Len(args) : IsInvalidArg(args[k])
    THEN [ok |-> FALSE, args |-> <<>>]
    ELSE [ok |-> TRUE, args |-> args]

\* the argument lists validate_args is applied to on its own: up to MaxArgs
\* tokens, among them one that differs from a deny-listed flag by a leading "-"
ArgSeqs ==
    UNION {[1..n -> Tokens \cup {TokDashDashRpcUser}] : n \in 0..MaxArgs}

\* the argument lists a launch is given: the default one, one with a token
\* that is a proper prefix of a deny-listed flag, and two with a deny-listed
\* token (alone, and after a valid one)
LaunchArgs ==
    {<<TokRegtest>>, <<TokRegtest, TokRpcUse>>, <<TokRpcUserEq>>,
     <<TokRegtest, TokRpcPassword>>}

ExitCodes == {0, 1}

KillStatus == 9

\* ------------------------------------------------------------------ state
VARIABLES
    env,          \* value of the TEMPDIR_ROOT environment variable (None: unset)
    conf0,        \* the Conf the caller passed to with_conf
    conf,         \* the Conf of the innermost with_conf frame
    pc,           \* position of the with_conf call
    frames,       \* suspended outer with_conf frames: their work_dir and process
    work_dir,     \* work_dir of the innermost frame
    process,      \* process (index into procs) of the innermost frame, 0: none
    i,            \* the poll counter of the innermost frame (saturates at MaxPolls)
    sleeps,       \* history: the 100 ms sleeps of the innermost frame's loop
                  \* (saturates at MaxPolls + 1)
    exitChecked,  \* process that try_wait found running in this loop iteration
    result,       \* what with_conf returned
    handle,       \* the LightningD value, once returned
    hstate,       \* life of the handle: none, live, stop/drop positions, dropped
    stopCalls,    \* explicit stop() calls made so far
    stopResult,   \* what the last explicit stop() returned
    stopLog,      \* history: what every explicit stop() returned, in order
    killSent,     \* Drop reached process.kill()
    dropLog,      \* history: what Drop did, in order
    fsys,         \* directories that exist
    procs,        \* every process spawned by this launch
    attemptDirs,  \* history: the work directory of every attempt, in order
    exitsSeen,    \* history: every exit try_wait observed (process, status)
    lastEv,       \* history: the last step with_conf took
    validated,    \* a call of validate_args on its own: <<>>, <<args>> when
                  \* entered, <<args, what it returned>> when returned
    build,        \* a run of the build script (build.rs, download::start):
                  \* <<>>, or its inputs, position and effects
    other         \* a second launch of the same caller, while the thread that
                  \* runs it is not the one taking steps: <<>> or <<its state>>

vars ==
    <<env, conf0, conf, pc, frames, work_dir, process, i, sleeps, exitChecked, result,
      handle, hstate, stopCalls, stopResult, stopLog, killSent, dropLog, fsys,
      procs, attemptDirs, exitsSeen, lastEv, validated, build,
                   other>>

NoDir == [kind |-> "None", path |-> None]

NoResult == [tag |-> "none", status |-> -1]

NoHandle == [process |-> 0, work_dir |-> NoDir,
             client |-> [sock |-> None, getinfo_ok |-> FALSE, checked |-> 0]]

Confs ==
    [args : LaunchArgs, view_stdout : {FALSE}, network : Networks,
     tmpdir : TmpRoots \cup {None}, staticdir : StaticDirs \cup {None},
     attempts : 0..MaxAttempts]

\* faulty variant of DefaultConf: one attempt more
DefaultConf_FourAttempts ==
    [args |-> <<TokRegtest>>, view_stdout |-> FALSE, network |-> "regtest",
     tmpdir |-> None, staticdir |-> None, attempts |-> DefaultAttempts + 1]

\* Conf::default(), lines 164-175
DefaultConf ==
    [args |-> <<TokRegtest>>, view_stdout |-> FALSE, network |-> "regtest",
     tmpdir |-> None, staticdir |-> None, attempts |-> DefaultAttempts]

Init ==
    /\ env \in EnvRoots \cup {None}
    /\ conf0 \in Confs
    /\ conf = conf0
    /\ pc = "launch"
    /\ frames = <<>>
    /\ work_dir = NoDir
    /\ process = 0
    /\ i = 0
    /\ sleeps = 0
    /\ exitChecked = 0
    /\ result = NoResult
    /\ handle = NoHandle
    /\ hstate = "none"
    /\ stopCalls = 0
    /\ stopResult = NoResult
    /\ stopLog = <<>>
    /\ killSent = FALSE
    /\ dropLog = <<>>
    /\ fsys = {OsTempDir} \cup TmpRoots \cup EnvRoots
    /\ procs = <<>>
    /\ attemptDirs = <<>>
    /\ exitsSeen = <<>>
    /\ lastEv = "none"
    /\ validated = <<>>
    /\ build = <<>>
    /\ other = <<>>

\* --------------------------------------------------------------- helpers
SockPath(dir, network) == Join(Join(dir, network), "lightning-rpc")

\* LightningRPC::new(sock).getinfo() can succeed only when a live daemon
\* listens on sock
SocketAnswers(sock, ps) ==
    \E p \in 1..Len(ps) : ps[p].alive /\ ps[p].sock = sock

\* lines 187-190: conf.tmpdir, or else the TEMPDIR_ROOT environment variable
TmpdirOf(c, e) == IF IsSome(c.tmpdir) THEN c.tmpdir ELSE e

\* faulty variant of FreshTempDirs: the name is not checked against the
\* directories that exist
FreshTempDirs_Reuse(root, fs) ==
    {[kind |-> "Temporary", path |-> Join(root, n)] : n \in TempNames}

\* TempDir::new_in(root): a directory with a random name that does not exist
FreshTempDirs(root, fs) ==
    {[kind |-> "Temporary", path |-> Join(root, n)] :
        n \in {m \in TempNames : Join(root, m) \notin fs}}

BothDirs(c, e) == IsSome(TmpdirOf(c, e)) /\ IsSome(c.staticdir)

\* lines 191-199: the work directories the match can produce (none when it
\* returns BothDirsSpecified)
WorkDirChoices(c, e, fs) ==
    IF BothDirs(c, e) THEN {}
    ELSE IF IsSome(TmpdirOf(c, e)) THEN FreshTempDirs(TmpdirOf(c, e), fs)
    ELSE IF IsSome(c.staticdir) THEN {[kind |-> "Persistent", path |-> c.staticdir]}
    ELSE FreshTempDirs(OsTempDir, fs)

\* the names a random temporary name is taken to differ from: the directories
\* that exist and the ones a process still running was started in
TakenDirs == fsys \cup {procs[p].dir : p \in {q \in 1..Len(procs) : procs[q].alive}}

TempPaths(dirs) == {d.path : d \in {x \in dirs : x.kind = "Temporary"}}

FrameDirs(fr) == {fr[k].work_dir : k \in 1..Len(fr)}

\* with_conf returns res: every frame of the recursion returns, and the
\* locals in `dropped` go out of scope (a TempDir deletes its directory, a
\* Child is dropped without being killed or waited for)
Return(res, fs, dropped) ==
    /\ result' = res
    /\ pc' = "done"
    /\ fsys' = fs \ TempPaths(dropped)
    /\ frames' = <<>>
    /\ work_dir' = NoDir
    /\ process' = 0
    /\ i' = 0
    /\ sleeps' = 0
    /\ exitChecked' = 0

NewProcess(dir) == [alive |-> TRUE, status |-> -1, sock |-> None, dir |-> dir.path]

HandleVarsUnchanged ==
    UNCHANGED <<handle, hstate, stopCalls, stopResult, stopLog, killSent, dropLog,
                validated, build,
                   other>>

\* ------------------------------------------------- with_conf, lines 187-251
\* (Some(_), Some(_)) => return Err(Error::BothDirsSpecified)
LaunchBothDirs ==
    /\ pc = "launch"
    /\ BothDirs(conf, env)
    /\ Return([tag |-> "BothDirsSpecified", status |-> -1], fsys, FrameDirs(frames))
    /\ lastEv' = "both_dirs"
    /\ UNCHANGED <<env, conf0, conf, procs, attemptDirs, exitsSeen>>
    /\ HandleVarsUnchanged

\* TempDir::new_in(..)? / fs::create_dir_all(..)? / TempDir::new()? fails
LaunchDirIoErr ==
    /\ pc = "launch"
    /\ ~BothDirs(conf, env)
    /\ Return([tag |-> "Io", status |-> -1], fsys, FrameDirs(frames))
    /\ lastEv' = "dir_io_error"
    /\ UNCHANGED <<env, conf0, conf, procs, attemptDirs, exitsSeen>>
    /\ HandleVarsUnchanged

\* the work directory is created, then validate_args(conf.args)? fails
LaunchInvalidArgs ==
    /\ pc = "launch"
    /\ ~validate_args(conf.args).ok
    /\ \E d \in WorkDirChoices(conf, env, TakenDirs) :
        /\ attemptDirs' = Append(attemptDirs, d)
        /\ Return([tag |-> "RpcUserAndPasswordUsed", status |-> -1],
                  fsys \cup {d.path}, FrameDirs(frames) \cup {d})
    /\ lastEv' = "invalid_args"
    /\ UNCHANGED <<env, conf0, conf, procs, exitsSeen>>
    /\ HandleVarsUnchanged

\* the work directory is created, the arguments are valid, spawn() fails
LaunchSpawnFail ==
    /\ pc = "launch"
    /\ validate_args(conf.args).ok
    /\ \E d \in WorkDirChoices(conf, env, TakenDirs) :
        /\ attemptDirs' = Append(attemptDirs, d)
        /\ Return([tag |-> "SpawnFailed", status |-> -1],
                  fsys \cup {d.path}, FrameDirs(frames) \cup {d})
    /\ lastEv' = "spawn_failed"
    /\ UNCHANGED <<env, conf0, conf, procs, exitsSeen>>
    /\ HandleVarsUnchanged

\* the work directory is created, the arguments are valid, the process is
\* spawned with --lightning-dir=<work_dir> and the loop is entered with i = 0
LaunchSpawnOk ==
    /\ pc = "launch"
    /\ validate_args(conf.args).ok
    /\ \E d \in WorkDirChoices(conf, env, TakenDirs) :
        /\ attemptDirs' = Append(attemptDirs, d)
        /\ fsys' = fsys \cup {d.path}
        /\ work_dir' = d
        /\ procs' = Append(procs, NewProcess(d))
    /\ process' = Len(procs) + 1
    /\ i' = 0
    /\ sleeps' = 0
    /\ exitChecked' = 0
    /\ pc' = "try_wait"
    /\ lastEv' = "spawned"
    /\ UNCHANGED <<env, conf0, conf, frames, result, exitsSeen>>
    /\ HandleVarsUnchanged

\* ------------------------------------------------- with_conf, lines 256-269
\* process.try_wait()? returns an I/O error: with_conf returns it
TryWaitErr ==
    /\ pc = "try_wait"
    /\ Return([tag |-> "Io", status |-> -1], fsys, FrameDirs(frames) \cup {work_dir})
    /\ lastEv' = "try_wait_error"
    /\ UNCHANGED <<env, conf0, conf, procs, attemptDirs, exitsSeen>>
    /\ HandleVarsUnchanged

\* faulty variant of TryWaitExitedRetry: the clone of conf keeps its attempts
TryWaitExitedRetry_KeepBudget ==
    /\ pc = "try_wait"
    /\ ~procs[process].alive
    /\ conf.attempts > 0
    /\ frames' = Append(frames, [work_dir |-> work_dir, process |-> process])
    /\ work_dir' = NoDir
    /\ process' = 0
    /\ exitChecked' = 0
    /\ pc' = "launch"
    /\ lastEv' = "early_exit_retry"
    /\ exitsSeen' = Append(exitsSeen, [process |-> process, status |-> procs[process].status])
    /\ UNCHANGED <<env, conf0, conf, i, sleeps, result, fsys, procs, attemptDirs>>
    /\ HandleVarsUnchanged

\* faulty variant of TryWaitExitedRetry: the work directory of the attempt is
\* dropped before with_conf is entered again
TryWaitExitedRetry_DropDir ==
    /\ pc = "try_wait"
    /\ ~procs[process].alive
    /\ conf.attempts > 0
    /\ conf' = [conf EXCEPT !.attempts = conf.attempts - 1]
    /\ fsys' = fsys \ TempPaths({work_dir})
    /\ frames' = Append(frames, [work_dir |-> NoDir, process |-> process])
    /\ work_dir' = NoDir
    /\ process' = 0
    /\ exitChecked' = 0
    /\ pc' = "launch"
    /\ lastEv' = "early_exit_retry"
    /\ exitsSeen' = Append(exitsSeen, [process |-> process, status |-> procs[process].status])
    /\ UNCHANGED <<env, conf0, i, sleeps, result, procs, attemptDirs>>
    /\ HandleVarsUnchanged

\* try_wait() = Some(status) and conf.attempts > 0: the frame stays on the
\* stack (its work_dir and process live on) and with_conf is entered again
\* with a clone of conf whose attempts is one less
TryWaitExitedRetry ==
    /\ pc = "try_wait"
    /\ ~procs[process].alive
    /\ conf.attempts > 0
    /\ conf' = [conf EXCEPT !.attempts = conf.attempts - 1]
    /\ frames' = Append(frames, [work_dir |-> work_dir, process |-> process])
    /\ work_dir' = NoDir
    /\ process' = 0
    /\ exitChecked' = 0
    /\ pc' = "launch"
    /\ lastEv' = "early_exit_retry"
    /\ exitsSeen' = Append(exitsSeen, [process |-> process, status |-> procs[process].status])
    /\ UNCHANGED <<env, conf0, i, sleeps, result, fsys, procs, attemptDirs>>
    /\ HandleVarsUnchanged

\* faulty variant of TryWaitExitedFail: gives up while one attempt is left
TryWaitExitedFail_OffByOne ==
    /\ pc = "try_wait"
    /\ ~procs[process].alive
    /\ conf.attempts <= 1
    /\ Return([tag |-> "EarlyExit", status |-> procs[process].status], fsys,
              FrameDirs(frames) \cup {work_dir})
    /\ exitsSeen' = Append(exitsSeen, [process |-> process, status |-> procs[process].status])
    /\ lastEv' = "early_exit_fail"
    /\ UNCHANGED <<env, conf0, conf, procs, attemptDirs>>
    /\ HandleVarsUnchanged

\* faulty variant of TryWaitExitedFail: with no attempt left the exit is
\* passed over and the loop goes on to the probe
TryWaitExitedFail_IgnoreExit ==
    /\ pc = "try_wait"
    /\ ~procs[process].alive
    /\ conf.attempts = 0
    /\ exitChecked' = process
    /\ pc' = "probe"
    /\ lastEv' = "running"
    /\ UNCHANGED <<env, conf0, conf, frames, work_dir, process, i, sleeps, result,
                   fsys, procs, attemptDirs, exitsSeen>>
    /\ HandleVarsUnchanged

\* try_wait() = Some(status) and conf.attempts = 0: Err(EarlyExit(status))
TryWaitExitedFail ==
    /\ pc = "try_wait"
    /\ ~procs[process].alive
    /\ conf.attempts = 0
    /\ Return([tag |-> "EarlyExit", status |-> procs[process].status], fsys,
              FrameDirs(frames) \cup {work_dir})
    /\ exitsSeen' = Append(exitsSeen, [process |-> process, status |-> procs[process].status])
    /\ lastEv' = "early_exit_fail"
    /\ UNCHANGED <<env, conf0, conf, procs, attemptDirs>>
    /\ HandleVarsUnchanged

\* faulty variant of TryWaitRunning: the probe follows the exit check at once
TryWaitRunning_NoSleep ==
    /\ pc = "try_wait"
    /\ procs[process].alive
    /\ exitChecked' = process
    /\ pc' = "probe"
    /\ lastEv' = "running"
    /\ UNCHANGED <<env, conf0, conf, frames, work_dir, process, i, sleeps, result,
                   fsys, procs, attemptDirs, exitsSeen>>
    /\ HandleVarsUnchanged

\* try_wait() = None: the process has not exited; thread::sleep(100 ms),
\* line 269, then on to the probe
TryWaitRunning ==
    /\ pc = "try_wait"
    /\ procs[process].alive
    /\ exitChecked' = process
    /\ sleeps' = IF sleeps <= MaxPolls THEN sleeps + 1 ELSE sleeps
    /\ pc' = "probe"
    /\ lastEv' = "running"
    /\ UNCHANGED <<env, conf0, conf, frames, work_dir, process, i, result, fsys,
                   procs, attemptDirs, exitsSeen>>
    /\ HandleVarsUnchanged

\* ------------------------------------------------- with_conf, lines 271-290
\* faulty variant of ProbeOk: the probe is made whether or not the exit check
\* came first
ProbeOk_Unchecked ==
    /\ pc \in {"try_wait", "probe"}
    /\ SocketAnswers(SockPath(work_dir.path, conf.network), procs)
    /\ handle' = [process |-> process, work_dir |-> work_dir,
                  client |-> [sock |-> SockPath(work_dir.path, conf.network),
                              getinfo_ok |-> TRUE, checked |-> exitChecked]]
    /\ hstate' = "live"
    /\ Return([tag |-> "Ok", status |-> -1], fsys, FrameDirs(frames))
    /\ lastEv' = "probe_ok"
    /\ UNCHANGED <<env, conf0, conf, procs, attemptDirs, exitsSeen, stopCalls,
                   stopResult, stopLog, killSent, dropLog, validated, build,
                   other>>

\* after the sleep: LightningRPC::new(sock), getinfo() is Ok: break with the
\* client and return the handle
ProbeOk ==
    /\ pc = "probe"
    /\ SocketAnswers(SockPath(work_dir.path, conf.network), procs)
    /\ handle' = [process |-> process, work_dir |-> work_dir,
                  client |-> [sock |-> SockPath(work_dir.path, conf.network),
                              getinfo_ok |-> TRUE, checked |-> exitChecked]]
    /\ hstate' = "live"
    /\ Return([tag |-> "Ok", status |-> -1], fsys, FrameDirs(frames))
    /\ lastEv' = "probe_ok"
    /\ UNCHANGED <<env, conf0, conf, procs, attemptDirs, exitsSeen, stopCalls,
                   stopResult, stopLog, killSent, dropLog, validated, build,
                   other>>

\* faulty variant of ProbeFail: the loop is left with the client although
\* getinfo() failed
ProbeFail_Break ==
    /\ pc = "probe"
    /\ handle' = [process |-> process, work_dir |-> work_dir,
                  client |-> [sock |-> SockPath(work_dir.path, conf.network),
                              getinfo_ok |-> FALSE, checked |-> exitChecked]]
    /\ hstate' = "live"
    /\ Return([tag |-> "Ok", status |-> -1], fsys, FrameDirs(frames))
    /\ lastEv' = "probe_failed"
    /\ UNCHANGED <<env, conf0, conf, procs, attemptDirs, exitsSeen, stopCalls,
                   stopResult, stopLog, killSent, dropLog, validated, build,
                   other>>

\* faulty variant of ProbeFail: a failed probe starts the launch over
ProbeFail_Relaunch ==
    /\ pc = "probe"
    /\ i' = IF i < MaxPolls THEN i + 1 ELSE i
    /\ sleeps' = sleeps
    /\ exitChecked' = 0
    /\ frames' = Append(frames, [work_dir |-> work_dir, process |-> process])
    /\ work_dir' = NoDir
    /\ process' = 0
    /\ pc' = "launch"
    /\ lastEv' = "probe_failed"
    /\ UNCHANGED <<env, conf0, conf, result, fsys, procs, attemptDirs, exitsSeen>>
    /\ HandleVarsUnchanged

\* faulty variant of ProbeFail: the launch gives up once MaxPolls probes have
\* failed
ProbeFail_GiveUp ==
    /\ pc = "probe"
    /\ lastEv' = "probe_failed"
    /\ IF i < MaxPolls
        THEN /\ i' = i + 1
             /\ sleeps' = sleeps
             /\ exitChecked' = 0
             /\ pc' = "try_wait"
             /\ UNCHANGED <<frames, work_dir, process, result, fsys>>
        ELSE Return([tag |-> "Io", status |-> -1], fsys,
                    FrameDirs(frames) \cup {work_dir})
    /\ UNCHANGED <<env, conf0, conf, procs, attemptDirs, exitsSeen>>
    /\ HandleVarsUnchanged

\* after the sleep: getinfo() fails (no socket, refused, query error): i += 1
\* and the loop starts over
ProbeFail ==
    /\ pc = "probe"
    /\ i' = IF i < MaxPolls THEN i + 1 ELSE i
    /\ sleeps' = sleeps
    /\ exitChecked' = 0
    /\ pc' = "try_wait"
    /\ lastEv' = "probe_failed"
    /\ UNCHANGED <<env, conf0, conf, frames, work_dir, process, result, fsys,
                   procs, attemptDirs, exitsSeen>>
    /\ HandleVarsUnchanged

\* ------------------------------------------------------------ the daemons
\* a spawned process exits on its own, with any exit code
ProcExit ==
    \E p \in 1..Len(procs), code \in ExitCodes :
        /\ procs[p].alive
        /\ procs[p].status = -1
        /\ procs' = [procs EXCEPT ![p] = [@ EXCEPT !.alive = FALSE, !.status = code,
                                                   !.sock = None]]
        /\ UNCHANGED <<env, conf0, conf, pc, frames, work_dir, process, i, sleeps,
                       exitChecked, result, fsys, attemptDirs, exitsSeen, lastEv>>
        /\ HandleVarsUnchanged

\* a running daemon starts to listen on <its lightning-dir>/<its network>/
\* lightning-rpc, where its network is what its own arguments make it
DaemonReady ==
    \E p \in 1..Len(procs), net \in Networks :
        /\ procs[p].alive
        /\ procs[p].sock = None
        /\ procs' = [procs EXCEPT ![p] = [@ EXCEPT !.sock = SockPath(procs[p].dir, net)]]
        /\ UNCHANGED <<env, conf0, conf, pc, frames, work_dir, process, i, sleeps,
                       exitChecked, result, fsys, attemptDirs, exitsSeen, lastEv>>
        /\ HandleVarsUnchanged

LaunchVarsUnchanged ==
    UNCHANGED <<env, conf0, conf, pc, frames, work_dir, process, i, sleeps, exitChecked,
                result, attemptDirs, exitsSeen, lastEv, validated, build,
                   other>>

\* ------------------------------------------- LightningD::stop, lines 299-302
\* self.client.stop()? is Ok: go on to self.process.wait()
StopRequestOk ==
    /\ hstate = "live"
    /\ stopCalls < MaxStops
    /\ SocketAnswers(handle.client.sock, procs)
    /\ stopCalls' = stopCalls + 1
    /\ stopResult' = NoResult
    /\ hstate' = "stop_wait"
    /\ UNCHANGED <<handle, stopLog, killSent, dropLog, fsys, procs>>
    /\ LaunchVarsUnchanged

\* self.client.stop()? fails: stop() returns the error
StopRequestErr ==
    /\ hstate = "live"
    /\ stopCalls < MaxStops
    /\ stopCalls' = stopCalls + 1
    /\ stopResult' = [tag |-> "Rpc", status |-> -1]
    /\ stopLog' = Append(stopLog, stopResult')
    /\ UNCHANGED <<handle, hstate, killSent, dropLog, fsys, procs>>
    /\ LaunchVarsUnchanged

\* faulty variant of StopWait: wait() takes the exit status out of the child
StopWait_TakeStatus ==
    /\ hstate = "stop_wait"
    /\ ~procs[handle.process].alive
    /\ stopResult' = [tag |-> "Ok", status |-> procs[handle.process].status]
    /\ stopLog' = Append(stopLog, stopResult')
    /\ procs' = [procs EXCEPT ![handle.process] = [@ EXCEPT !.status = -1]]
    /\ hstate' = "live"
    /\ UNCHANGED <<handle, stopCalls, killSent, dropLog, fsys>>
    /\ LaunchVarsUnchanged

\* faulty variant of StopWait: stop() returns without waiting for the exit
StopWait_NoBlock ==
    /\ hstate = "stop_wait"
    /\ stopResult' = [tag |-> "Ok", status |-> procs[handle.process].status]
    /\ stopLog' = Append(stopLog, stopResult')
    /\ hstate' = "live"
    /\ UNCHANGED <<handle, stopCalls, killSent, dropLog, fsys, procs>>
    /\ LaunchVarsUnchanged

\* self.process.wait() returns once the process has exited: Ok(status)
StopWait ==
    /\ hstate = "stop_wait"
    /\ ~procs[handle.process].alive
    /\ stopResult' = [tag |-> "Ok", status |-> procs[handle.process].status]
    /\ stopLog' = Append(stopLog, stopResult')
    /\ hstate' = "live"
    /\ UNCHANGED <<handle, stopCalls, killSent, dropLog, fsys, procs>>
    /\ LaunchVarsUnchanged

\* --------------------------------------- Drop for LightningD, lines 317-324
\* the handle goes out of scope: a Persistent work_dir takes the stop() branch
DropBegin ==
    /\ hstate = "live"
    /\ hstate' = IF handle.work_dir.kind = "Persistent" THEN "drop_stop" ELSE "drop_kill"
    /\ UNCHANGED <<handle, stopCalls, stopResult, stopLog, killSent, dropLog, fsys,
                   procs>>
    /\ LaunchVarsUnchanged

\* let _ = self.stop(): client.stop() is Ok, stop() goes on to process.wait()
DropStopOk ==
    /\ hstate = "drop_stop"
    /\ SocketAnswers(handle.client.sock, procs)
    /\ hstate' = "drop_wait"
    /\ dropLog' = Append(dropLog, "stop_ok")
    /\ UNCHANGED <<handle, stopCalls, stopResult, stopLog, killSent, fsys, procs>>
    /\ LaunchVarsUnchanged

\* let _ = self.stop(): client.stop() fails, the error is discarded
DropStopErr ==
    /\ hstate = "drop_stop"
    /\ hstate' = "drop_kill"
    /\ dropLog' = Append(dropLog, "stop_err")
    /\ UNCHANGED <<handle, stopCalls, stopResult, stopLog, killSent, fsys, procs>>
    /\ LaunchVarsUnchanged

\* let _ = self.stop(): process.wait() returns once the process has exited
DropWait ==
    /\ hstate = "drop_wait"
    /\ ~procs[handle.process].alive
    /\ hstate' = "drop_kill"
    /\ dropLog' = Append(dropLog, "waited")
    /\ UNCHANGED <<handle, stopCalls, stopResult, stopLog, killSent, fsys, procs>>
    /\ LaunchVarsUnchanged

Killed(pr) ==
    IF pr.alive THEN [pr EXCEPT !.alive = FALSE, !.status = KillStatus, !.sock = None]
    ELSE pr

\* let _ = self.process.kill(); then the fields are dropped: a TempDir
\* deletes its directory
DropKill ==
    /\ hstate = "drop_kill"
    /\ procs' = [procs EXCEPT ![handle.process] = Killed(@)]
    /\ killSent' = TRUE
    /\ dropLog' = Append(dropLog, "kill")
    /\ fsys' = fsys \ TempPaths({handle.work_dir})
    /\ hstate' = "dropped"
    /\ UNCHANGED <<handle, stopCalls, stopResult, stopLog>>
    /\ LaunchVarsUnchanged

\* ---------------------------------------------------------- specification
Launch ==
    \/ LaunchBothDirs
    \/ LaunchDirIoErr
    \/ LaunchInvalidArgs
    \/ LaunchSpawnFail
    \/ LaunchSpawnOk

Poll ==
    \/ TryWaitErr
    \/ TryWaitExitedRetry
    \/ TryWaitExitedFail
    \/ TryWaitRunning
    \/ ProbeOk
    \/ ProbeFail

Stop ==
    \/ StopRequestOk
    \/ StopRequestErr
    \/ StopWait

Drop ==
    \/ DropBegin
    \/ DropStopOk
    \/ DropStopErr
    \/ DropWait
    \/ DropKill

Daemon ==
    \/ ProcExit
    \/ DaemonReady

Next == Launch \/ Poll \/ Stop \/ Drop \/ Daemon

Spec == Init /\ [][Next]_vars

\* with_conf, stop() and drop() are sequential blocking code: a step of theirs
\* that can be taken is taken.  Nothing makes a daemon exit or become ready.
FairSpec ==
    /\ Spec
    /\ WF_vars(Launch \/ Poll)
    /\ WF_vars(Stop)
    /\ WF_vars(Drop)

\* --------------------------------------------------- the launch on its own
\* with_conf up to its return; what the caller does with the handle is left
\* out
NextLaunch == Launch \/ Poll \/ Daemon

\* while with_conf has not returned, a spawned process exits or answers the
\* status query
Responds == pc # "done" /\ (ProcExit \/ ProbeOk)

\* with_conf is sequential code whose calls return (spawn, directory
\* creation, try_wait, sleep, getinfo), and every daemon responds: it exits,
\* or once it listens a status query on its socket is answered
LiveSpec ==
    /\ Init
    /\ [][NextLaunch]_vars
    /\ WF_vars(Launch \/ Poll)
    /\ SF_vars(Responds)

\* ------------------------------------------------- two concurrent launches
\* what one launch holds of its own: the locals of its with_conf frames, its
\* handle and its history.  env, fsys and procs belong to the machine.
Own ==
    [conf0 |-> conf0, conf |-> conf, pc |-> pc, frames |-> frames,
     work_dir |-> work_dir, process |-> process, i |-> i, sleeps |-> sleeps,
     exitChecked |-> exitChecked, result |-> result, handle |-> handle,
     hstate |-> hstate, stopCalls |-> stopCalls, stopResult |-> stopResult,
     stopLog |-> stopLog, killSent |-> killSent, dropLog |-> dropLog,
     attemptDirs |-> attemptDirs, exitsSeen |-> exitsSeen, lastEv |-> lastEv]

\* the scheduler passes from the thread of one launch to the thread of the
\* other, at any point
Switch ==
    /\ other # <<>>
    /\ other' = <<Own>>
    /\ conf0' = other[1].conf0
    /\ conf' = other[1].conf
    /\ pc' = other[1].pc
    /\ frames' = other[1].frames
    /\ work_dir' = other[1].work_dir
    /\ process' = other[1].process
    /\ i' = other[1].i
    /\ sleeps' = other[1].sleeps
    /\ exitChecked' = other[1].exitChecked
    /\ result' = other[1].result
    /\ handle' = other[1].handle
    /\ hstate' = other[1].hstate
    /\ stopCalls' = other[1].stopCalls
    /\ stopResult' = other[1].stopResult
    /\ stopLog' = other[1].stopLog
    /\ killSent' = other[1].killSent
    /\ dropLog' = other[1].dropLog
    /\ attemptDirs' = other[1].attemptDirs
    /\ exitsSeen' = other[1].exitsSeen
    /\ lastEv' = other[1].lastEv
    /\ UNCHANGED <<env, fsys, procs, validated, build>>

\* the configuration the two launches are both given: valid arguments, no
\* retry; tmpdir or staticdir given, or neither
PairConfs ==
    {c \in Confs : /\ c.args = <<TokRegtest>>
                   /\ c.network = "regtest"
                   /\ c.attempts = 0
                   /\ ~(IsSome(c.tmpdir) /\ IsSome(c.staticdir))}

InitPair ==
    /\ env = None
    /\ conf0 \in PairConfs
    /\ conf = conf0
    /\ pc = "launch"
    /\ frames = <<>>
    /\ work_dir = NoDir
    /\ process = 0
    /\ i = 0
    /\ sleeps = 0
    /\ exitChecked = 0
    /\ result = NoResult
    /\ handle = NoHandle
    /\ hstate = "none"
    /\ stopCalls = 0
    /\ stopResult = NoResult
    /\ stopLog = <<>>
    /\ killSent = FALSE
    /\ dropLog = <<>>
    /\ fsys = {OsTempDir} \cup TmpRoots \cup EnvRoots
    /\ procs = <<>>
    /\ attemptDirs = <<>>
    /\ exitsSeen = <<>>
    /\ lastEv = "none"
    /\ validated = <<>>
    /\ build = <<>>
    /\ \E c \in {conf0} :
        other = <<[conf0 |-> c, conf |-> c, pc |-> "launch", frames |-> <<>>,
                   work_dir |-> NoDir, process |-> 0, i |-> 0, sleeps |-> 0,
                   exitChecked |-> 0,
                   result |-> NoResult, handle |-> NoHandle, hstate |-> "none",
                   stopCalls |-> 0, stopResult |-> NoResult, stopLog |-> <<>>,
                   killSent |-> FALSE, dropLog |-> <<>>, attemptDirs |-> <<>>,
                   exitsSeen |-> <<>>, lastEv |-> "none"]>>

\* with no retry budget and valid arguments the other launch steps are never
\* enabled
NextPair ==
    \/ LaunchDirIoErr
    \/ LaunchSpawnFail
    \/ LaunchSpawnOk
    \/ TryWaitErr
    \/ TryWaitExitedFail
    \/ TryWaitRunning
    \/ ProbeOk
    \/ ProbeFail
    \/ Stop
    \/ Drop
    \/ Daemon
    \/ Switch

SpecPair == InitPair /\ [][NextPair]_vars

\* ------------------------------------------------- validate_args on its own
\* validate_args is a public function: a caller applies it to any argument
\* list, no launch being under way
InitArgs ==
    /\ validated \in {<<a>> : a \in ArgSeqs}
    /\ build = <<>>
    /\ env = None
    /\ conf0 \in {c \in Confs : c.args = <<TokRegtest>> /\ c.network = "regtest"
                                /\ c.tmpdir = None /\ c.staticdir = None
                                /\ c.attempts = 0}
    /\ conf = conf0
    /\ pc = "launch"
    /\ frames = <<>>
    /\ work_dir = NoDir
    /\ process = 0
    /\ i = 0
    /\ sleeps = 0
    /\ exitChecked = 0
    /\ result = NoResult
    /\ handle = NoHandle
    /\ hstate = "none"
    /\ stopCalls = 0
    /\ stopResult = NoResult
    /\ stopLog = <<>>
    /\ killSent = FALSE
    /\ dropLog = <<>>
    /\ fsys = {OsTempDir} \cup TmpRoots \cup EnvRoots
    /\ procs = <<>>
    /\ attemptDirs = <<>>
    /\ exitsSeen = <<>>
    /\ lastEv = "none"
    /\ other = <<>>

ValidateArgs ==
    /\ Len(validated) = 1
    /\ validated' = Append(validated, validate_args(validated[1]))
    /\ UNCHANGED <<env, conf0, conf, pc, frames, work_dir, process, i, sleeps, exitChecked,
                   result, handle, hstate, stopCalls, stopResult, stopLog, killSent,
                   dropLog, fsys, procs, attemptDirs, exitsSeen, lastEv, build,
                   other>>

NextArgs == ValidateArgs

SpecArgs == InitArgs /\ [][NextArgs]_vars

\* ------------------------------------------------ LightningD::new, line 182
\* LightningD::new(exe) is with_conf(exe, &Conf::default())
InitDefault ==
    /\ env \in EnvRoots \cup {None}
    /\ conf0 = DefaultConf
    /\ conf = conf0
    /\ pc = "launch"
    /\ frames = <<>>
    /\ work_dir = NoDir
    /\ process = 0
    /\ i = 0
    /\ sleeps = 0
    /\ exitChecked = 0
    /\ result = NoResult
    /\ handle = NoHandle
    /\ hstate = "none"
    /\ stopCalls = 0
    /\ stopResult = NoResult
    /\ stopLog = <<>>
    /\ killSent = FALSE
    /\ dropLog = <<>>
    /\ fsys = {OsTempDir} \cup TmpRoots \cup EnvRoots
    /\ procs = <<>>
    /\ attemptDirs = <<>>
    /\ exitsSeen = <<>>
    /\ lastEv = "none"
    /\ validated = <<>>
    /\ build = <<>>
    /\ other = <<>>

\* with the default Conf the argument check passes and the work directory is
\* temporary: the other launch steps and the stop() branch of Drop are never
\* enabled
NextDefault ==
    \/ LaunchDirIoErr
    \/ LaunchSpawnFail
    \/ LaunchSpawnOk
    \/ Poll
    \/ Stop
    \/ DropBegin
    \/ DropKill
    \/ Daemon

SpecDefault == InitDefault /\ [][NextDefault]_vars

\* ------------------------------------------ build.rs, download::start, 79-161
\* download_filename(), lines 54-58: always a .tar.xz name
DownloadFilename == [stem |-> "clightning-Ubuntu", ext |-> ".tar.xz"]

OtherFilename == [stem |-> "clightning-Fedora", ext |-> ".tar.xz"]

\* str::ends_with on a file name
NameEndsWith(name, ext) == name.ext = ext

\* Path::ends_with on an archive entry: its last component
PathEndsWith(path, component) == Len(path) > 0 /\ path[Len(path)] = component

\* the tarballs a file or the release URL can deliver, their SHA-256 and
\* their entries
Tarballs == {"tarball_1", "tarball_2"}

Sha256(bytes) == IF bytes = "tarball_1" THEN "h1" ELSE "h2"

Entries(bytes) ==
    IF bytes = "tarball_1"
    THEN << <<"usr", "bin", "lightningd">>, <<"usr", "bin", "lightning-cli">> >>
    ELSE << <<"usr", "bin", "lightningd">> >>

\* what sha256::Hash::from_str accepts
IsHash(tok) == tok \in {"h1", "h2"}

\* the lines of a SHA256SUMS file after split("  "): hash and name, a hash
\* that does not parse, a line of one token
SumsLines ==
    {<<"h1", DownloadFilename>>, <<"h2", DownloadFilename>>,
     <<"zz", DownloadFilename>>, <<"h1", OtherFilename>>, <<"h1">>}

SumsFiles ==
    {[present |-> FALSE, lines |-> <<>>]}
        \cup {[present |-> TRUE, lines |-> l] :
                l \in UNION {[1..n -> SumsLines] : n \in 0..MaxLines}}

\* the index of the first line of two tokens whose second is filename, 0 when
\* there is none (the for loop of lines 65-70)
RECURSIVE FirstLineFor(_, _, _)
FirstLineFor(lines, filename, k) ==
    IF k > Len(lines) THEN 0
    ELSE IF Len(lines[k]) = 2 /\ lines[k][2] = filename THEN k
    ELSE FirstLineFor(lines, filename, k + 1)

\* get_expected_sha256, lines 59-77
get_expected_sha256(sums, filename) ==
    IF ~sums.present THEN [tag |-> "Err", hash |-> "none"]
    ELSE IF FirstLineFor(sums.lines, filename, 1) = 0 THEN [tag |-> "panic", hash |-> "none"]
    ELSE IF ~IsHash(sums.lines[FirstLineFor(sums.lines, filename, 1)][1])
         THEN [tag |-> "panic", hash |-> "none"]
    ELSE [tag |-> "Ok", hash |-> sums.lines[FirstLineFor(sums.lines, filename, 1)][1]]

InitBuild ==
    /\ build \in [filename : {DownloadFilename},
                  sums : SumsFiles,
                  home : BOOLEAN,
                  exe : BOOLEAN,
                  tarball_file : {"unset", "missing", "present"},
                  source : Tarballs,
                  pc : {"start"},
                  expected_hash : {"none"},
                  tarball_bytes : {"none"},
                  unpacked : {{}},
                  log : {<<>>},
                  outcome : {"none"}]
    /\ build.exe => build.home
    /\ env = None
    /\ conf0 = DefaultConf
    /\ conf = conf0
    /\ pc = "launch"
    /\ frames = <<>>
    /\ work_dir = NoDir
    /\ process = 0
    /\ i = 0
    /\ sleeps = 0
    /\ exitChecked = 0
    /\ result = NoResult
    /\ handle = NoHandle
    /\ hstate = "none"
    /\ stopCalls = 0
    /\ stopResult = NoResult
    /\ stopLog = <<>>
    /\ killSent = FALSE
    /\ dropLog = <<>>
    /\ fsys = {OsTempDir} \cup TmpRoots \cup EnvRoots
    /\ procs = <<>>
    /\ attemptDirs = <<>>
    /\ exitsSeen = <<>>
    /\ lastEv = "none"
    /\ validated = <<>>
    /\ other = <<>>

BuildRestUnchanged ==
    UNCHANGED <<env, conf0, conf, pc, frames, work_dir, process, i, sleeps,
                exitChecked, result, handle, hstate, stopCalls, stopResult, stopLog,
                killSent, dropLog, fsys, procs, attemptDirs, exitsSeen, lastEv,
                validated, other>>

\* start ends: Ok(()), an Err through `?`, or a panic
BuildEnd(b, how) == [b EXCEPT !.pc = "done", !.outcome = how]

\* lines 80-81: the expected hash is looked up before anything else; the
\* SHA256SUMS file is read when it can be opened
BuildExpectedHash ==
    /\ build # <<>>
    /\ build.pc = "start"
    /\ LET r == get_expected_sha256(build.sums, build.filename)
           b == [build EXCEPT !.log = IF build.sums.present
                                      THEN Append(@, "read_sums") ELSE @]
       IN  build' = IF r.tag = "Ok"
                    THEN [b EXCEPT !.pc = "home", !.expected_hash = r.hash]
                    ELSE BuildEnd(b, r.tag)
    /\ BuildRestUnchanged

\* lines 84-88: OUT_DIR/lightning is there or is created
BuildHomeOk ==
    /\ build # <<>>
    /\ build.pc = "home"
    /\ build' = [build EXCEPT !.pc = "exists", !.home = TRUE,
                              !.log = IF build.home THEN @ ELSE Append(@, "create_dir")]
    /\ BuildRestUnchanged

\* lines 86-87: create_dir fails
BuildHomeErr ==
    /\ build # <<>>
    /\ build.pc = "home"
    /\ ~build.home
    /\ build' = BuildEnd(build, "Err")
    /\ BuildRestUnchanged

\* lines 99, 160: usr/bin/lightningd exists, Ok(())
BuildSkip ==
    /\ build # <<>>
    /\ build.pc = "exists"
    /\ build.exe
    /\ build' = BuildEnd(build, "Ok")
    /\ BuildRestUnchanged

\* lines 102-115: LIGHTNINGD_TARBALL_FILE is not set, the release URL
\* answers 200
BuildDownloadOk ==
    /\ build # <<>>
    /\ build.pc = "exists"
    /\ ~build.exe
    /\ build.tarball_file = "unset"
    /\ build' = [build EXCEPT !.pc = "verify", !.tarball_bytes = build.source,
                              !.log = Append(@, "download")]
    /\ BuildRestUnchanged

\* lines 109-112: send() fails (Err) or the status is not 200 (panic)
BuildDownloadFail ==
    /\ build # <<>>
    /\ build.pc = "exists"
    /\ ~build.exe
    /\ build.tarball_file = "unset"
    /\ \E how \in {"Err", "panic"} :
        build' = BuildEnd([build EXCEPT !.log = Append(@, "download")], how)
    /\ BuildRestUnchanged

\* lines 116-127: the file LIGHTNINGD_TARBALL_FILE names is read
BuildReadFileOk ==
    /\ build # <<>>
    /\ build.pc = "exists"
    /\ ~build.exe
    /\ build.tarball_file = "present"
    /\ build' = [build EXCEPT !.pc = "verify", !.tarball_bytes = build.source,
                              !.log = Append(@, "read_file")]
    /\ BuildRestUnchanged

\* lines 117-125: File::open or read_to_end fails
BuildReadFileErr ==
    /\ build # <<>>
    /\ build.pc = "exists"
    /\ ~build.exe
    /\ build.tarball_file \in {"missing", "present"}
    /\ build' = BuildEnd([build EXCEPT !.log = IF build.tarball_file = "present"
                                               THEN Append(@, "read_file") ELSE @],
                         "Err")
    /\ BuildRestUnchanged

\* faulty variant of BuildVerify: the hashes are computed and not compared
BuildVerify_NoCompare ==
    /\ build # <<>>
    /\ build.pc = "verify"
    /\ build' = [build EXCEPT !.pc = "unpack", !.log = Append(@, "verify")]
    /\ BuildRestUnchanged

\* lines 130-135: assert_eq!(expected_hash, tarball_hash)
BuildVerify ==
    /\ build # <<>>
    /\ build.pc = "verify"
    /\ LET b == [build EXCEPT !.log = Append(@, "verify")]
       IN  build' = IF build.expected_hash = Sha256(build.tarball_bytes)
                    THEN [b EXCEPT !.pc = "unpack"]
                    ELSE BuildEnd(b, "panic")
    /\ BuildRestUnchanged

\* the entries of the archive whose path ends with lightningd
ExeEntries(bytes) ==
    {Entries(bytes)[k] : k \in {j \in 1..Len(Entries(bytes)) :
                                    PathEndsWith(Entries(bytes)[j], "lightningd")}}

\* lines 148-160: every entry whose path ends with lightningd is unpacked
\* into OUT_DIR/lightning
BuildUnpack ==
    /\ build # <<>>
    /\ build.pc = "unpack"
    /\ NameEndsWith(build.filename, ".tar.xz")
    /\ build' = BuildEnd([build EXCEPT !.unpacked = ExeEntries(build.tarball_bytes),
                                       !.exe = ExeEntries(build.tarball_bytes) # {},
                                       !.log = Append(@, "unpack")], "Ok")
    /\ BuildRestUnchanged

\* lines 151, 154: entries().unwrap() or unpack_in(..).unwrap() panics
BuildUnpackPanic ==
    /\ build # <<>>
    /\ build.pc = "unpack"
    /\ NameEndsWith(build.filename, ".tar.xz")
    /\ build' = BuildEnd([build EXCEPT !.log = Append(@, "unpack")], "panic")
    /\ BuildRestUnchanged

NextBuild ==
    \/ BuildExpectedHash
    \/ BuildHomeOk
    \/ BuildHomeErr
    \/ BuildSkip
    \/ BuildDownloadOk
    \/ BuildDownloadFail
    \/ BuildReadFileOk
    \/ BuildReadFileErr
    \/ BuildVerify
    \/ BuildUnpack
    \/ BuildUnpackPanic

SpecBuild == InitBuild /\ [][NextBuild]_vars

\* ================================================================ claims
Returned == pc = "done"

Failed == Returned /\ result.tag # "Ok"

HandleExists == hstate \notin {"none", "dropped"}

AllExited == \A p \in 1..Len(procs) : ~procs[p].alive

HasInvalidArg(args) == \E k \in 1..Len(args) : IsInvalidArg(args[k])

BothGiven(c) == IsSome(c.tmpdir) /\ IsSome(c.staticdir)

C3_HandleWasProbed ==
    /\ HandleExists =>
        /\ handle.client.getinfo_ok
        /\ handle.client.sock = SockPath(handle.work_dir.path, conf0.network)
        /\ handle.work_dir.path = procs[handle.process].dir
        /\ handle.client.checked = handle.process
        /\ handle.process = Len(procs)
    /\ (result.tag = "Ok") <=> (hstate # "none")

C3_Witness ==
    /\ hstate = "live"
    /\ handle.client.getinfo_ok
    /\ Len(exitsSeen) > 0

\* C4: once with_conf has returned an error, no process it spawned is alive.
C4_NoProcessLeftOnError == Failed => AllExited

\* C5 as stated: the work directory path of every attempt differs from the
\* path of the attempt before it, for temporary and persistent directories.
C5_FreshDirEveryRetry ==
    \A k \in 1..(Len(attemptDirs) - 1) : attemptDirs[k + 1].path # attemptDirs[k].path

\* C5 amended: a retry with a temporary work directory gets a newly created
\* directory whose path differs from the path of the attempt before it (which
\* still exists while the retry runs); a retry with a persistent (staticdir)
\* work directory uses the same staticdir path again.
C5_FreshTempDirEveryRetry ==
    \A k \in 1..(Len(attemptDirs) - 1) :
        /\ attemptDirs[k + 1].kind = attemptDirs[k].kind
        /\ attemptDirs[k].kind = "Temporary" =>
            /\ attemptDirs[k + 1].path # attemptDirs[k].path
            /\ pc # "done" => attemptDirs[k].path \in fsys
        /\ attemptDirs[k].kind = "Persistent" =>
            /\ attemptDirs[k + 1].path = attemptDirs[k].path
            /\ attemptDirs[k].path = conf0.staticdir

C5_Witness ==
    /\ Len(attemptDirs) = 3
    /\ attemptDirs[1].kind = "Temporary"
    /\ pc = "probe"

\* C6 as stated: a launch with both tmpdir and staticdir set, or with a
\* deny-listed token in args, returns BothDirsSpecified or
\* RpcUserAndPasswordUsed, with no process spawned and the budget untouched.
C6_ConfigErrorsOnly ==
    (BothGiven(conf0) \/ HasInvalidArg(conf0.args)) =>
        /\ Len(procs) = 0
        /\ conf.attempts = conf0.attempts
        /\ Returned => result.tag \in {"BothDirsSpecified", "RpcUserAndPasswordUsed"}
        /\ (Returned /\ BothGiven(conf0)) => result.tag = "BothDirsSpecified"

\* C6 amended: such a launch never spawns a process and never touches the
\* budget; with both directories set it returns BothDirsSpecified; with a
\* deny-listed token it returns RpcUserAndPasswordUsed or BothDirsSpecified,
\* or the I/O error of the work directory creation, which comes before the
\* arguments are validated.
C6_ConfigErrorsBeforeSpawn ==
    (BothGiven(conf0) \/ HasInvalidArg(conf0.args)) =>
        /\ Len(procs) = 0
        /\ conf.attempts = conf0.attempts
        /\ Returned => result.tag \in {"BothDirsSpecified", "RpcUserAndPasswordUsed", "Io"}
        /\ (Returned /\ BothGiven(conf0)) => result.tag = "BothDirsSpecified"
        /\ (Returned /\ result.tag = "Io") =>
            (lastEv = "dir_io_error" /\ attemptDirs = <<>>)

C6_Witness ==
    /\ result.tag = "RpcUserAndPasswordUsed"
    /\ conf0.attempts > 0
    /\ conf0.args = <<TokRegtest, TokRpcPassword>>
    /\ Len(attemptDirs) = 1

\* C7: a process beyond the first is spawned only in the step right after an
\* exit was seen with budget left, when every process spawned so far has been
\* seen exited; the budget changes only in that exit step, by one; a spawn
\* failure or a directory I/O error ends the launch at once with that error,
\* and a failed probe goes back to the exit check: none of the three spawns a
\* process or changes the budget.
C7_RespawnOnlyAfterEarlyExit ==
    [][
        /\ (Len(procs') > Len(procs) /\ Len(procs) >= 1) =>
            /\ lastEv = "early_exit_retry"
            /\ Len(exitsSeen) = Len(procs)
            /\ AllExited
        /\ conf'.attempts # conf.attempts =>
            /\ pc = "try_wait"
            /\ ~procs[process].alive
            /\ conf.attempts > 0
            /\ conf'.attempts = conf.attempts - 1
            /\ Len(exitsSeen') = Len(exitsSeen) + 1
        /\ (pc = "launch" /\ lastEv' \in {"spawn_failed", "dir_io_error"}) =>
            /\ pc' = "done"
            /\ result'.tag = (IF lastEv' = "spawn_failed" THEN "SpawnFailed" ELSE "Io")
            /\ procs' = procs
            /\ conf' = conf
        /\ (pc = "probe" /\ lastEv' = "probe_failed") =>
            /\ pc' = "try_wait"
            /\ procs' = procs
            /\ conf' = conf
            /\ result' = result
        /\ Returned => (Len(procs') = Len(procs) /\ conf' = conf)
    ]_vars

C7_Witness ==
    /\ Len(procs) = 2
    /\ Len(exitsSeen) = 1
    /\ pc = "try_wait"
    /\ lastEv = "probe_failed"
    /\ conf.attempts = conf0.attempts - 1

\* C8: with both tmpdir and staticdir given the launch returns
\* BothDirsSpecified; with one or none given it never does, and its work
\* directory is Persistent when only staticdir is given and Temporary
\* otherwise.
C8_MaterializeByGivenPair ==
    /\ (Returned /\ BothGiven(conf0)) => result.tag = "BothDirsSpecified"
    /\ ~BothGiven(conf0) =>
        /\ result.tag # "BothDirsSpecified"
        /\ \A k \in 1..Len(attemptDirs) :
            attemptDirs[k].kind =
                (IF IsSome(conf0.staticdir) THEN "Persistent" ELSE "Temporary")

\* C9: with only staticdir given, TEMPDIR_ROOT plays no part: whatever its
\* value the launch does not fail with BothDirsSpecified, and every work
\* directory it uses is the Persistent directory at staticdir.
C9_EnvIgnoredWithStaticdir ==
    (~IsSome(conf0.tmpdir) /\ IsSome(conf0.staticdir)) =>
        /\ result.tag # "BothDirsSpecified"
        /\ \A k \in 1..Len(attemptDirs) :
            attemptDirs[k] = [kind |-> "Persistent", path |-> conf0.staticdir]
        /\ (Returned /\ lastEv # "dir_io_error") => Len(attemptDirs) > 0

\* C10: once the drop of a handle on which stop() was never called has
\* begun, the handle's process stops running, whatever the daemon does.
C10_DropEndsProcess ==
    (hstate \in {"drop_stop", "drop_wait", "drop_kill"} /\ stopCalls = 0)
        ~> (handle.process > 0 /\ ~procs[handle.process].alive)

Dropping == hstate \in {"drop_stop", "drop_wait", "drop_kill"}

\* the order of Drop's steps, as far as it has come
DropOrder ==
    /\ handle.work_dir.kind = "Temporary" => dropLog \in {<<>>, <<"kill">>}
    /\ handle.work_dir.kind = "Persistent" =>
        dropLog \in {<<>>, <<"stop_err">>, <<"stop_ok">>, <<"stop_ok", "waited">>,
                     <<"stop_err", "kill">>, <<"stop_ok", "waited", "kill">>}
    /\ killSent <=> (Len(dropLog) > 0 /\ dropLog[Len(dropLog)] = "kill")
    /\ killSent <=> hstate = "dropped"
    /\ (dropLog # <<>> \/ Dropping) => HandleExists \/ hstate = "dropped"

\* C11: a drop with a Persistent work directory first attempts the graceful
\* stop and discards its error, a drop with a Temporary work directory issues
\* no stop request, and in all cases the kill is sent afterwards: every drop
\* that has begun comes to process.kill().
C11_DropPolicy ==
    /\ []DropOrder
    /\ Dropping ~> killSent

C13_StopAgain ==
    \A k \in 1..Len(stopLog) :
        stopLog[k].tag = "Ok" =>
            /\ stopLog[k].status \in ExitCodes
            /\ ~procs[handle.process].alive
            /\ procs[handle.process].status = stopLog[k].status
            /\ \A j \in (k + 1)..Len(stopLog) :
                stopLog[j] \in {[tag |-> "Rpc", status |-> -1], stopLog[k]}
            /\ hstate # "stop_wait"

C13_Witness ==
    /\ Len(stopLog) = 2
    /\ stopLog[1] = [tag |-> "Ok", status |-> 1]
    /\ stopLog[2].tag = "Rpc"
    /\ hstate = "live"
\* C14: a failed readiness probe only sends with_conf back to the exit check,
\* whatever the number of probes that failed before it: the step after a probe
\* is either that or the return of the handle, and an error return, a retry
\* or a budget decrement inside the polling loop is always a step of the exit
\* check, never of a probe.
C14_ProbeFailuresSwallowed ==
    [][
        /\ (pc = "probe" /\ pc' # "probe") =>
            \/ /\ pc' = "try_wait"
               /\ lastEv' = "probe_failed"
               /\ <<conf, procs, process, work_dir, frames, result, fsys>>'
                    = <<conf, procs, process, work_dir, frames, result, fsys>>
               /\ i' = (IF i < MaxPolls THEN i + 1 ELSE i)
            \/ /\ pc' = "done"
               /\ result'.tag = "Ok"
        /\ (pc \in {"try_wait", "probe"} /\ (Failed' \/ pc' = "launch" \/ conf' # conf)) =>
            /\ pc = "try_wait"
            /\ lastEv' \in {"try_wait_error", "early_exit_retry", "early_exit_fail"}
            /\ lastEv' # "try_wait_error" => ~procs[process].alive
        /\ (pc = "try_wait" /\ procs[process].alive /\ lastEv' = "running") =>
            (pc' = "probe" /\ i' = i)
    ]_vars

C14_Witness ==
    /\ pc = "probe"
    /\ i = MaxPolls
    /\ lastEv = "running"
    /\ procs[process].alive
    /\ result = NoResult
\* the processes and the work directories a launch holds: those of its
\* with_conf frames and those of its handle until the handle is dropped
HeldHandle(o) == IF o.hstate = "dropped" THEN NoHandle ELSE o.handle

OwnProcs(o) ==
    ({o.process, HeldHandle(o).process}
        \cup {o.frames[k].process : k \in 1..Len(o.frames)}) \ {0}

OwnDirs(o) ==
    ({o.work_dir.path, HeldHandle(o).work_dir.path}
        \cup {o.frames[k].work_dir.path : k \in 1..Len(o.frames)}) \ {None}

\* process p is alive and listens on sock
Listens(p, sock) == p > 0 /\ procs[p].alive /\ procs[p].sock = sock

\* a step of the running launch whose probe or stop request is answered:
\* the socket it talks to
ProbeAnswered == other' = other /\ pc = "probe" /\ pc' = "done"

StopAnswered ==
    /\ other' = other
    /\ \/ hstate = "live" /\ hstate' = "stop_wait"
       \/ hstate = "drop_stop" /\ hstate' = "drop_wait"

\* a step of the running launch leaves alone what the other launch holds:
\* it deletes none of its directories and kills none of its processes
OtherUntouched ==
    other' = other =>
        /\ (fsys \ fsys') \cap OwnDirs(other[1]) = {}
        /\ \A p \in OwnProcs(other[1]) :
            procs'[p].status = KillStatus => procs[p].status = KillStatus

OwnDisjoint ==
    /\ OwnProcs(Own) \cap OwnProcs(other[1]) = {}
    /\ \A d \in OwnDirs(Own) \cap OwnDirs(other[1]) :
        /\ d \in StaticDirs
        /\ conf0.staticdir = d
        /\ other[1].conf0.staticdir = d

\* C15 (as stated): of two launches running concurrently, whatever their
\* configuration, each probe and each stop request is answered by the
\* launch's own process, and no step deletes a directory or kills a process
\* of the other launch.
C15_InstancesIndependent ==
    [][
        /\ ProbeAnswered => Listens(process, SockPath(work_dir.path, conf.network))
        /\ StopAnswered => Listens(handle.process, handle.client.sock)
        /\ OtherUntouched
    ]_vars

\* C15 (amended): the two launches hold different processes, and different
\* work directories unless both were given the same staticdir; no step
\* deletes a directory or kills a process of the other launch; and a launch
\* whose work directory is temporary has each probe and each stop request
\* answered by its own process.
C15_IndependentUnlessSameStaticdir ==
    /\ []OwnDisjoint
    /\ [][
           /\ (ProbeAnswered /\ work_dir.kind = "Temporary") =>
               Listens(process, SockPath(work_dir.path, conf.network))
           /\ (StopAnswered /\ handle.work_dir.kind = "Temporary") =>
               Listens(handle.process, handle.client.sock)
           /\ OtherUntouched
       ]_vars

C15_Witness ==
    /\ hstate = "stop_wait"
    /\ other[1].hstate = "live"
    /\ handle.work_dir.kind = "Temporary"
    /\ other[1].handle.work_dir.kind = "Temporary"
    /\ IsSome(conf0.tmpdir)
    /\ procs[other[1].handle.process].alive
\* a token begins with the characters of -rpcuser or of -rpcpassword
DenyListed(tok) ==
    \E pre \in {<<"-", "r", "p", "c", "u", "s", "e", "r">>,
                <<"-", "r", "p", "c", "p", "a", "s", "s", "w", "o", "r", "d">>} :
        /\ Len(tok) >= Len(pre)
        /\ \A j \in 1..Len(pre) : tok[j] = pre[j]

\* C16: validate_args returns the RpcUserAndPasswordUsed error for every
\* argument list with at least one token that starts with -rpcuser or
\* -rpcpassword, and for every other list it returns the list itself, same
\* tokens in the same order.
C16_ValidateArgs ==
    Len(validated) = 2 =>
        IF \E k \in 1..Len(validated[1]) : DenyListed(validated[1][k])
        THEN ~validated[2].ok
        ELSE /\ validated[2].ok
             /\ Len(validated[2].args) = Len(validated[1])
             /\ \A k \in 1..Len(validated[1]) : validated[2].args[k] = validated[1][k]

C16_Witness ==
    /\ Len(validated) = 2
    /\ validated[1] = <<TokRegtest, TokDashDashRpcUser, TokRpcUse>>
    /\ validated[2].ok
    /\ validated[2].args = validated[1]
\* the default values the documentation of Conf states, lines 111-121
DocDefaultConf ==
    [args |-> <<<<"-", "-", "r", "e", "g", "t", "e", "s", "t">>>>,
     view_stdout |-> FALSE, network |-> "regtest", tmpdir |-> <<>>,
     staticdir |-> <<>>, attempts |-> 3]

C18_ExitCheckFirst ==
    [][
        other' = other =>
            /\ (pc = "probe" /\ pc' # "probe") => (exitChecked = process /\ process > 0)
            /\ pc' = "probe" => (pc \in {"try_wait", "probe"} /\ exitChecked' = process')
            /\ (hstate = "none" /\ hstate' # "none") => pc = "probe"
            /\ (pc = "try_wait" /\ ~procs[process].alive /\ pc' # "try_wait") =>
                /\ hstate' = "none"
                /\ \/ pc' = "launch" /\ result' = result
                   \/ pc' = "done" /\ result'.tag \in {"EarlyExit", "Io"}
                /\ result'.tag # "Io" => Len(exitsSeen') = Len(exitsSeen) + 1
    ]_vars

C18_Witness ==
    /\ lastEv = "early_exit_fail"
    /\ result.tag = "EarlyExit"
    /\ hstate = "none"
    /\ Len(attemptDirs) = 1
    /\ SocketAnswers(SockPath(attemptDirs[1].path, conf.network), procs)
\* C19 (as stated): the sleep is taken only after a failed probe, so at any
\* point of the polling loop the sleeps of the attempt are as many as its
\* failed probes, and none when the first probe is about to be made.
C19_SleepOnlyAfterFailedProbe ==
    (pc \in {"try_wait", "probe"} /\ i < MaxPolls) => sleeps = i

\* C19 (amended): the sleep is taken directly after every exit check that
\* finds the process running, before the probe: when a probe is about to be
\* made the sleeps of the attempt are one more than its failed probes (one
\* when it is the first probe), and back at the exit check they are as many.
C19_SleepBeforeEveryProbe ==
    /\ pc = "probe" => sleeps = i + 1
    /\ (pc = "try_wait" /\ i < MaxPolls) => sleeps = i

C19_Witness ==
    /\ pc = "probe"
    /\ i = 1
    /\ sleeps = 2
    /\ procs[process].alive
    /\ procs[process].sock = SockPath(work_dir.path, conf.network)
\* the temporary directories this launch created that exist
TempDirsLeft ==
    {attemptDirs[k].path : k \in {j \in 1..Len(attemptDirs) :
        attemptDirs[j].kind = "Temporary" /\ attemptDirs[j].path \in fsys}}

\* after the return only the directory of a handle not yet dropped is left
CleanAfterReturn ==
    Returned =>
        TempDirsLeft = (IF HandleExists THEN TempPaths({handle.work_dir}) ELSE {})

\* C20 (as stated): a retry deletes the temporary directory of the attempt
\* that exited early, so at most one temporary directory of the launch exists
\* while it spawns or polls; after the return only the directory of a handle
\* not yet dropped is left.
C20_RetryDeletesTempDir ==
    /\ ~Returned => Cardinality(TempDirsLeft) <= 1
    /\ CleanAfterReturn

\* C20 (amended): the temporary directory of every attempt, the ones that
\* exited early included, exists until with_conf returns; after the return
\* only the directory of a handle not yet dropped is left, and it is deleted
\* when the handle is dropped.
C20_TempDirsKeptUntilReturn ==
    /\ ~Returned =>
        /\ \A k \in 1..Len(attemptDirs) : attemptDirs[k].path \in fsys
        /\ \A k \in 1..Len(attemptDirs) :
            attemptDirs[k].kind = "Temporary" =>
                \A j \in 1..Len(attemptDirs) :
                    attemptDirs[j] = attemptDirs[k] => j = k
    /\ CleanAfterReturn

C20_Witness ==
    /\ pc = "probe"
    /\ Len(attemptDirs) = 2
    /\ Len(exitsSeen) = 1
    /\ Cardinality(TempDirsLeft) = 2
\* C21: when every spawned process exits or answers the status query, every
\* with_conf call returns, a handle or an error; and as long as the process
\* has not exited and no daemon answers on the socket, no step of the polling
\* loop other than an I/O error of try_wait leaves the loop.
C21_LaunchReturns ==
    /\ <>Returned
    /\ [][
           (/\ pc \in {"try_wait", "probe"}
            /\ procs[process].alive
            /\ procs'[process].alive
            /\ ~SocketAnswers(SockPath(work_dir.path, conf.network), procs)
            /\ lastEv' # "try_wait_error")
           => (pc' \in {"try_wait", "probe"} /\ ~Returned')
       ]_vars

C21_Witness ==
    /\ Returned
    /\ result.tag = "Ok"
    /\ Len(procs) = MaxAttempts + 1
    /\ Len(exitsSeen) = MaxAttempts
    /\ procs[handle.process].alive
\* the hash the SHA256SUMS file lists for the file name: the first token of
\* the first line whose second token is the name
ListedHashes(sums, filename) ==
    {sums.lines[k][1] : k \in {j \in 1..Len(sums.lines) :
        /\ Len(sums.lines[j]) = 2
        /\ sums.lines[j][2] = filename
        /\ \A m \in 1..(j - 1) :
            ~(Len(sums.lines[m]) = 2 /\ sums.lines[m][2] = filename)}}

ExeWasThere == "unpack" \notin {build.log[k] : k \in 1..Len(build.log)} /\ build.exe

NotUnpackedUnverified ==
    ("unpack" \in {build.log[k] : k \in 1..Len(build.log)} \/ build.unpacked # {}) =>
        /\ build.sums.present
        /\ ListedHashes(build.sums, build.filename) = {Sha256(build.tarball_bytes)}
        /\ build.tarball_bytes = build.source

\* C22 (as stated): no archive entry is unpacked unless the SHA-256 of the
\* tarball bytes is the hash SHA256SUMS lists for the download file name; and
\* when the lightningd executable is already there the run does nothing:
\* no download, no file read, no verification, no unpacking.
C22_VerifiedOrNothing ==
    /\ NotUnpackedUnverified
    /\ ExeWasThere => (build.log = <<>> /\ build.outcome \in {"none", "Ok"})

\* C22 (amended): no archive entry is unpacked unless the SHA-256 of the
\* tarball bytes is the hash SHA256SUMS lists for the download file name; and
\* when the lightningd executable is already there no tarball is downloaded,
\* read, verified or unpacked, while the SHA256SUMS file is still read first
\* and its lookup can end the run with an error or a panic.
C22_VerifiedOrOnlySumsRead ==
    /\ NotUnpackedUnverified
    /\ ExeWasThere =>
        /\ build.log \in {<<>>, <<"read_sums">>}
        /\ build.tarball_bytes = "none"
        /\ build.unpacked = {}
        /\ build.outcome = "Ok" =>
            IsHash(build.expected_hash) /\ build.log = <<"read_sums">>
        /\ build.outcome \in {"Err", "panic"} =>
            get_expected_sha256(build.sums, build.filename).tag = build.outcome

C22_Witness ==
    /\ build.outcome = "Ok"
    /\ build.unpacked = {<<"usr", "bin", "lightningd">>}
    /\ build.log = <<"read_sums", "create_dir", "download", "verify", "unpack">>
    /\ build.sums.lines = << <<"h1", OtherFilename>>, <<"h2", DownloadFilename>> >>
    /\ build.tarball_bytes = "tarball_2"

====
